---- MODULE Spec2Model ----
(***************************************************************************)
(* Model of han-xudong/camera_calibrator: the chessboard pattern-size      *)
(* search of detect_corners (CLI) and detectCorners (embedded), and the    *)
(* calibration orchestration of calibrate_camera (CLI) and calibrateCamera *)
(* (embedded).  One behaviour is one invocation of one entry point.        *)
(*                                                                         *)
(* The OpenCV collaborators (imread, goodFeaturesToTrack,                    *)
(* findChessboardCorners, cornerSubPix, calibrateCamera, projectPoints)    *)
(* are black boxes: each call returns a nondeterministically chosen        *)
(* outcome.  Pixel data and coordinates are abstracted to identities.      *)
(***************************************************************************)
EXTENDS Integers, Sequences, FiniteSets, TLC

(* ---------------------------- bounds ----------------------------------- *)
MaxArgc == 4            \* argc ranges over 1..MaxArgc
MaxHint == 3            \* rows/cols hints range over -1..MaxHint
MaxDetected == 2        \* feature counts of the image, full pipeline
MaxDetectedWide == 400  \* feature counts of the image, generator only
MaxDetectedPair == 0    \* feature counts of the image, paired front ends
MaxCornerVal == 2       \* distinct corner vectors the finder can return
MaxViews == 3           \* number of views N
MaxPts == 1             \* points per view / per inner list
MaxObjLen == 5          \* outer length of the supplied object points

(* ----------------------- program constants ----------------------------- *)
MinDim == 3             \* for (int r = 3; ...
MaxDim == 20            \* ...; r <= 20; ...
Slack == 20             \* r * c <= detectedCount + 20
DetectArgc == 4         \* if (argc < 4)
CalibArgc == 2          \* if (argc < 2)

HintRange == (-1)..MaxHint
CornerVals == 1..MaxCornerVal

VARIABLES
    entry,        \* which entry point this invocation runs
    pc,           \* position inside the entry point
    argc,         \* process argument count (CLI entries)
    imgReadable,  \* whether imread yields a non-empty image
    imgFeatures,  \* number of points goodFeaturesToTrack finds in the image
    rows, cols,   \* the hint
    detectedCount,
    sizesToTry,   \* vector<Size>
    idx,          \* position of the range-for over sizesToTry (0-based count of finished iterations)
    found, foundSize, corners,
    attempts,     \* history: every findChessboardCorners call, in order
    out,          \* structured objects emitted (stdout JSON lines / returned val)
    errOut,       \* lines written to stderr
    exitCode,     \* process exit code, -1 while running or for embedded entries
    uncaught,     \* an exception left the entry point
    fileOk, headerOk,
    N,            \* number of views
    allImagePointsJS, objPointsJS,   \* arguments of the embedded calibrateCamera
    imagePoints, objectPoints, sharedObjPoints,
    solverCalls, rms, perViewErrors,
    failure,      \* history: which collaborator threw ("none", "solver", "projector")
    first         \* paired runs: what the CLI run on the same inputs did

detectVars == <<imgReadable, imgFeatures, rows, cols, detectedCount, sizesToTry,
                idx, found, foundSize, corners, attempts>>
calibVars == <<fileOk, headerOk, N, allImagePointsJS, objPointsJS, imagePoints,
               objectPoints, sharedObjPoints, solverCalls, rms, perViewErrors, failure>>
ioVars == <<out, errOut, exitCode, uncaught>>
vars == <<entry, pc, argc, detectVars, calibVars, ioVars, first>>

(* ------------------------------ helpers --------------------------------- *)
Size(w, h) == [width |-> w, height |-> h]
NoSize == Size(0, 0)                         \* default-constructed cv::Size
Area(s) == s.width * s.height
Range(seq) == {seq[i] : i \in 1..Len(seq)}

(* ---------------------- CandidateSizeGenerator -------------------------- *)
\* if (rows > 0 && cols > 0)
HintedMode(r, c) == r > 0 /\ c > 0

\* if (cols > 1 && rows > 1)
HintHasSquares(r, c) == c > 1 /\ r > 1

HintedSizesNoSwap(r, c) ==
    <<Size(c, r), Size(c, r)>> \o
    (IF HintHasSquares(r, c) THEN <<Size(c - 1, r - 1), Size(r - 1, c - 1)>> ELSE <<>>)

\* the push_backs of the hinted branch
HintedSizes(r, c) ==
    <<Size(c, r), Size(r, c)>> \o
    (IF HintHasSquares(r, c) THEN <<Size(c - 1, r - 1), Size(r - 1, c - 1)>> ELSE <<>>)

FitsStrict(r, c, n) == r * c < n + Slack

\* if (r * c <= detectedCount + 20)
Fits(r, c, n) == r * c <= n + Slack

\* the inner loop, for (int c = 3; c <= 20; c++), of one r: the sizes pushed
InnerLoop(r, n) ==
    LET all == [k \in 1..(MaxDim - MinDim + 1) |-> Size(MinDim + k - 1, r)]
        Keep(s) == Fits(r, s.width, n)
    IN  SelectSeq(all, Keep)

\* the outer loop, for (int r = 3; r <= 20; r++), from r on
RECURSIVE GenLoop(_, _)
GenLoop(r, n) ==
    IF r > MaxDim THEN <<>> ELSE InnerLoop(r, n) \o GenLoop(r + 1, n)

AutoSizes(n) == GenLoop(MinDim, n)

\* the comparator handed to std::sort
AreaGreater(a, b) == Area(a) > Area(b)

\* std::sort is not a stable sort: its result is some permutation of the
\* input in which no element is preceded by one the comparator orders after
\* it; the relative order of equivalent elements is unspecified.  idxs is
\* the set of positions of s not yet placed.
RECURSIVE SortPerms(_, _)
SortPerms(s, idxs) ==
    IF idxs = {} THEN {<<>>}
    ELSE LET top == {i \in idxs : \A j \in idxs : ~AreaGreater(s[j], s[i])}
         IN  UNION {{<<s[i]>> \o t : t \in SortPerms(s, idxs \ {i})} : i \in top}

StdSort(s) == SortPerms(s, 1..Len(s))


(* --------------------------- emitted objects ---------------------------- *)
\* an error message; sizes lists the pattern sizes the text names
ErrMsg(text, sizes) == [text |-> text, sizes |-> sizes]

\* vector<Point2f> corners: which finder result it holds (0: empty), and
\* whether cornerSubPix has refined it
Corners(id, refined) == [id |-> id, refined |-> refined]
NoCorners == Corners(0, FALSE)

Emit(obj) == out' = Append(out, obj)

(* ------------------------------- Init ----------------------------------- *)
Entries == {"detect_cli", "detect_wasm", "calib_cli", "calib_wasm"}
IsCli(e) == e \in {"detect_cli", "calib_cli"}
IsDetect(e) == e \in {"detect_cli", "detect_wasm"}

\* a 2-D point j of view i / a 3-D point read from place (i, j)
Pt(kind, i, j) == [src |-> kind, i |-> i, j |-> j]
PtList(kind, i, m) == [j \in 1..m |-> Pt(kind, i, j)]

\* the JS image point arrays: view i has lens[i] points
ImagePointArrays == UNION {
    {[i \in 1..n |-> PtList("img", i, lens[i])] : lens \in [1..n -> 0..MaxPts]}
    : n \in 0..MaxViews}

\* the JS object point collection: item k answers `length` with len
ObjPointCollections == UNION {
    {[k \in 1..l |-> [id |-> k, len |-> lens[k]]] : lens \in [1..l -> 0..MaxPts]}
    : l \in 0..MaxObjLen}

DetectDefaults ==
    /\ detectedCount = 0
    /\ sizesToTry = <<>>
    /\ idx = 0
    /\ found = FALSE
    /\ foundSize = NoSize
    /\ corners = NoCorners
    /\ attempts = <<>>

CalibDefaults ==
    /\ N = 0
    /\ imagePoints = <<>>
    /\ objectPoints = <<>>
    /\ sharedObjPoints = FALSE
    /\ solverCalls = 0
    /\ rms = "unset"
    /\ perViewErrors = <<>>
    /\ failure = "none"

\* no CLI run precedes this invocation
NoRun == [ran |-> FALSE, sizesToTry |-> <<>>, attempts |-> <<>>, out |-> <<>>]

IoDefaults ==
    /\ out = <<>>
    /\ errOut = <<>>
    /\ exitCode = -1
    /\ uncaught = "none"

Init ==
    /\ entry \in Entries
    /\ pc = (CASE entry = "detect_cli" -> "args"
               [] entry = "detect_wasm" -> "gen"
               [] entry = "calib_cli" -> "args"
               [] entry = "calib_wasm" -> "parse")
    /\ argc \in (IF IsCli(entry) THEN 1..MaxArgc ELSE {0})
    /\ imgReadable \in (IF entry = "detect_cli" THEN BOOLEAN ELSE {TRUE})
    /\ imgFeatures \in (IF IsDetect(entry) THEN 0..MaxDetected ELSE {0})
    /\ rows \in (IF entry = "detect_wasm" THEN HintRange ELSE {0})
    /\ cols \in (IF entry = "detect_wasm" THEN HintRange ELSE {0})
    /\ fileOk \in (IF entry = "calib_cli" THEN BOOLEAN ELSE {TRUE})
    /\ headerOk \in (IF entry = "calib_cli" THEN BOOLEAN ELSE {TRUE})
    /\ allImagePointsJS \in (IF entry = "calib_wasm" THEN ImagePointArrays ELSE {<<>>})
    /\ objPointsJS \in (IF entry = "calib_wasm" THEN ObjPointCollections ELSE {<<>>})
    /\ DetectDefaults
    /\ CalibDefaults
    /\ IoDefaults
    /\ first = NoRun

(* ------------------------ detect_corners main --------------------------- *)
\* if (argc < 4) { cout << {"error": Usage}; return 1; }
DetectCheckArgs ==
    /\ entry = "detect_cli" /\ pc = "args"
    /\ IF argc < DetectArgc
       THEN /\ Emit([error |-> ErrMsg("Usage: ./detect_corners <image_path> <rows> <cols>", <<>>)])
            /\ exitCode' = 1
            /\ pc' = "done"
       ELSE /\ pc' = "parse"
            /\ UNCHANGED <<out, exitCode>>
    /\ UNCHANGED <<entry, first, argc, detectVars, calibVars, errOut, uncaught>>

\* rows = stoi(argv[2]); cols = stoi(argv[3]); catch (...) -> error, return 1
DetectParseArgs ==
    /\ entry = "detect_cli" /\ pc = "parse"
    /\ \E rOk \in BOOLEAN, cOk \in BOOLEAN, r \in HintRange, c \in HintRange :
         /\ rows' = (IF rOk THEN r ELSE rows)
         /\ cols' = (IF rOk /\ cOk THEN c ELSE cols)
         /\ IF rOk /\ cOk
            THEN /\ pc' = "imread"
                 /\ UNCHANGED <<out, exitCode>>
            ELSE /\ Emit([error |-> ErrMsg("Invalid rows/cols arguments", <<>>)])
                 /\ exitCode' = 1
                 /\ pc' = "done"
    /\ UNCHANGED <<entry, first, argc, imgReadable, imgFeatures, detectedCount, sizesToTry,
                   idx, found, foundSize, corners, attempts, calibVars, errOut, uncaught>>

\* Mat img = imread(imagePath); if (img.empty()) { error; return 0; }
DetectReadImage ==
    /\ entry = "detect_cli" /\ pc = "imread"
    /\ IF ~imgReadable
       THEN /\ Emit([error |-> ErrMsg("Could not read image at <imagePath>", <<>>)])
            /\ exitCode' = 0
            /\ pc' = "done"
       ELSE /\ pc' = "gen"
            /\ UNCHANGED <<out, exitCode>>
    /\ UNCHANGED <<entry, first, argc, detectVars, calibVars, errOut, uncaught>>

(* ---------------- candidate generation, both front ends ----------------- *)
\* for (const auto& size : sizesToTry): an empty vector skips the loop
LoopEntry(list) == IF Len(list) = 0 THEN "report" ELSE "search"

\* the hinted branch, or goodFeaturesToTrack and the candidate loops
GenerateCandidates ==
    /\ IsDetect(entry) /\ pc = "gen"
    /\ IF HintedMode(rows, cols)
       THEN /\ sizesToTry' = HintedSizes(rows, cols)
            /\ pc' = LoopEntry(sizesToTry')
            /\ UNCHANGED detectedCount
       ELSE /\ detectedCount' = imgFeatures
            /\ sizesToTry' = AutoSizes(imgFeatures)
            /\ pc' = "sort"
    /\ UNCHANGED <<entry, first, argc, imgReadable, imgFeatures, rows, cols, idx, found,
                   foundSize, corners, attempts, calibVars, ioVars>>

\* std::sort(sizesToTry.begin(), sizesToTry.end(), area-descending comparator)
SortCandidates ==
    /\ IsDetect(entry) /\ pc = "sort"
    /\ \E sorted \in StdSort(sizesToTry) : sizesToTry' = sorted
    /\ pc' = LoopEntry(sizesToTry')
    /\ UNCHANGED <<entry, first, argc, imgReadable, imgFeatures, rows, cols, detectedCount,
                   idx, found, foundSize, corners, attempts, calibVars, ioVars>>

(* ------------------------- PatternSearchEngine -------------------------- *)
LoopExitsNoBreak(ok, done, total) == done = total

\* the range-for ends on break (found) or when every element was visited
LoopExits(ok, done, total) == ok \/ done = total

\* one iteration: corners.clear(); found = findChessboardCorners(...);
\* if (found) { foundSize = size; break; }
\* The finder's answer is free at every call.  On failure it may leave
\* nothing or some partial detection in corners (cv = 0 or not); the history
\* keeps the returned corners of successful calls only.
Attempt ==
    /\ IsDetect(entry) /\ pc = "search"
    /\ idx < Len(sizesToTry)
    /\ LET size == sizesToTry[idx + 1] IN
       \E ok \in BOOLEAN, cv \in 0..MaxCornerVal :
         /\ ok => cv \in CornerVals
         /\ found' = ok
         /\ corners' = Corners(cv, FALSE)
         /\ foundSize' = (IF ok THEN size ELSE foundSize)
         /\ attempts' = Append(attempts, [size |-> size, ok |-> ok,
                                          corners |-> IF ok THEN cv ELSE 0])
         /\ idx' = idx + 1
         /\ pc' = (IF LoopExits(ok, idx + 1, Len(sizesToTry)) THEN "report" ELSE "search")
    /\ UNCHANGED <<entry, first, argc, imgReadable, imgFeatures, rows, cols, detectedCount,
                   sizesToTry, calibVars, ioVars>>

\* cornerSubPix(gray, corners, ...)
Refine(c) == Corners(c.id, TRUE)

\* if (rows > 0) in the failure branch of detect_corners main
FailureIsHinted(r, c) == r > 0

\* the "Tried ..." message names cols x rows and (cols-1) x (rows-1)
HintedFailure(r, c) ==
    ErrMsg("Chessboard pattern not found. Tried", <<Size(c, r), Size(c - 1, r - 1)>>)

AutoFailure ==
    ErrMsg("Auto-detection failed. Could not find any valid chessboard pattern.", <<>>)

\* if (found) { cornerSubPix; print success object } else { print failure }
DetectCliReport ==
    /\ entry = "detect_cli" /\ pc = "report"
    /\ IF found
       THEN /\ corners' = Refine(corners)
            /\ Emit([success |-> TRUE, rows |-> foundSize.height, cols |-> foundSize.width,
                     width |-> "img.cols", height |-> "img.rows", corners |-> corners'])
       ELSE /\ Emit([success |-> FALSE,
                     error |-> IF FailureIsHinted(rows, cols)
                               THEN HintedFailure(rows, cols) ELSE AutoFailure])
            /\ UNCHANGED corners
    /\ exitCode' = 0
    /\ pc' = "done"
    /\ UNCHANGED <<entry, first, argc, imgReadable, imgFeatures, rows, cols, detectedCount,
                   sizesToTry, idx, found, foundSize, attempts, calibVars, errOut, uncaught>>

\* val result; result.set("found", found); if (found) {...}; return result;
DetectWasmReport ==
    /\ entry = "detect_wasm" /\ pc = "report"
    /\ IF found
       THEN /\ corners' = Refine(corners)
            /\ Emit([found |-> TRUE, rows |-> foundSize.height, cols |-> foundSize.width,
                     corners |-> corners'])
       ELSE /\ Emit([found |-> FALSE])
            /\ UNCHANGED corners
    /\ pc' = "done"
    /\ UNCHANGED <<entry, first, argc, imgReadable, imgFeatures, rows, cols, detectedCount,
                   sizesToTry, idx, found, foundSize, attempts, calibVars, errOut,
                   exitCode, uncaught>>

(* ------------------------ calibrate_camera main ------------------------- *)
\* if (argc < 2) { cerr << Usage; return 1; }
CalibCheckArgs ==
    /\ entry = "calib_cli" /\ pc = "args"
    /\ IF argc < CalibArgc
       THEN /\ errOut' = Append(errOut, "Usage: ./calibrate_camera <data_file_path>")
            /\ exitCode' = 1
            /\ pc' = "done"
       ELSE /\ pc' = "open"
            /\ UNCHANGED <<errOut, exitCode>>
    /\ UNCHANGED <<entry, first, argc, detectVars, calibVars, out, uncaught>>

\* ifstream infile(dataPath); if (!infile.is_open()) { error; return 1; }
CalibOpenFile ==
    /\ entry = "calib_cli" /\ pc = "open"
    /\ IF ~fileOk
       THEN /\ Emit([error |-> ErrMsg("Could not open data file", <<>>)])
            /\ exitCode' = 1
            /\ pc' = "done"
       ELSE /\ pc' = "header"
            /\ UNCHANGED <<out, exitCode>>
    /\ UNCHANGED <<entry, first, argc, detectVars, calibVars, errOut, uncaught>>

\* if (!(infile >> width >> height >> N)) { error; return 1; }
CalibReadHeader ==
    /\ entry = "calib_cli" /\ pc = "header"
    /\ IF ~headerOk
       THEN /\ Emit([error |-> ErrMsg("Invalid data header", <<>>)])
            /\ exitCode' = 1
            /\ pc' = "done"
            /\ UNCHANGED N
       ELSE /\ \E n \in (-1)..MaxViews : N' = n
            /\ pc' = "blocks"
            /\ UNCHANGED <<out, exitCode>>
    /\ UNCHANGED <<entry, first, argc, detectVars, fileOk, headerOk, allImagePointsJS,
                   objPointsJS, imagePoints, objectPoints, sharedObjPoints, solverCalls,
                   rms, perViewErrors, failure, errOut, uncaught>>

\* vector<...> imagePoints(N), objectPoints(N); then per view: infile >> M;
\* both vectors resize(M) and are filled from the file.  A negative N or M
\* converts to a size above max_size(): std::length_error, caught nowhere.
\* (A failed extraction stores 0 in M, which the range of M covers.)
CalibReadBlocks ==
    /\ entry = "calib_cli" /\ pc = "blocks"
    /\ IF N < 0
       THEN /\ uncaught' = "std::length_error"
            /\ pc' = "done"
            /\ UNCHANGED <<imagePoints, objectPoints>>
       ELSE \E M \in [1..N -> (-1)..MaxPts] :
              IF \E i \in 1..N : M[i] < 0
              THEN /\ uncaught' = "std::length_error"
                   /\ pc' = "done"
                   /\ UNCHANGED <<imagePoints, objectPoints>>
              ELSE /\ imagePoints' = [i \in 1..N |-> PtList("img", i, M[i])]
                   /\ objectPoints' = [i \in 1..N |-> PtList("file", i, M[i])]
                   /\ pc' = "solve"
                   /\ UNCHANGED uncaught
    /\ UNCHANGED <<entry, first, argc, detectVars, fileOk, headerOk, N, allImagePointsJS,
                   objPointsJS, sharedObjPoints, solverCalls, rms, perViewErrors, failure,
                   out, errOut, exitCode>>

(* ---------------- embedded calibrateCamera: reconciliation -------------- *)
SharedWhenShorter(objLen, n) == objLen < n

\* if (objLen != N) sharedObjPoints = true;
IsShared(objLen, n) == objLen # n

\* shared branch: objPointsJS[j] is read as one point, for j < objLen
SharedObjPtsVec(js) == [j \in 1..Len(js) |-> Pt("item", js[j].id, 0)]

\* per-image branch: objPointsJS[i] is read as a list of its `length` points
PerViewObjPts(item) == PtList("elem", item.id, item.len)

\* for (i < N) objectPoints[i] = sharedObjPtsVec;  or the per-image loop
Reconcile(js, n, shared) ==
    IF shared THEN [i \in 1..n |-> SharedObjPtsVec(js)]
    ELSE [i \in 1..n |-> PerViewObjPts(js[i])]

\* everything from the entry of calibrateCamera up to the solver call
CalibParseJS ==
    /\ entry = "calib_wasm" /\ pc = "parse"
    /\ N' = Len(allImagePointsJS)
    /\ sharedObjPoints' = IsShared(Len(objPointsJS), N')
    /\ imagePoints' = [i \in 1..N' |-> allImagePointsJS[i]]
    /\ objectPoints' = Reconcile(objPointsJS, N', sharedObjPoints')
    /\ pc' = "solve"
    /\ UNCHANGED <<entry, first, argc, detectVars, fileOk, headerOk, allImagePointsJS,
                   objPointsJS, solverCalls, rms, perViewErrors, failure, ioVars>>

(* ---------------- CalibrationOrchestrator, both front ends -------------- *)
\* try { rms = calibrateCamera(...) } catch (cv::Exception& e) { ... }
CalibSolve ==
    /\ entry \in {"calib_cli", "calib_wasm"} /\ pc = "solve"
    /\ solverCalls' = solverCalls + 1
    /\ \E ok \in BOOLEAN :
         IF ok
         THEN /\ rms' = "rms"
              /\ pc' = "reproject"
              /\ UNCHANGED <<out, exitCode, failure>>
         ELSE /\ IF entry = "calib_cli"
                 THEN /\ Emit([success |-> FALSE,
                               error |-> ErrMsg("OpenCV Calibration Error: e.what()", <<>>)])
                      /\ exitCode' = 0
                 ELSE /\ Emit([error |-> ErrMsg("e.what()", <<>>)])
                      /\ UNCHANGED exitCode
              /\ failure' = "solver"
              /\ pc' = "done"
              /\ UNCHANGED rms
    /\ UNCHANGED <<entry, first, argc, detectVars, fileOk, headerOk, N, allImagePointsJS,
                   objPointsJS, imagePoints, objectPoints, sharedObjPoints,
                   perViewErrors, errOut, uncaught>>

(* ----------------------- ReprojectionErrorEvaluator --------------------- *)
\* the loop over the views calling projectPoints; the CLI wraps it in
\* try/catch, the embedded function does not
CalibReproject ==
    /\ entry \in {"calib_cli", "calib_wasm"} /\ pc = "reproject"
    /\ \E ok \in BOOLEAN :
         IF ok \/ N = 0
         THEN /\ perViewErrors' = [i \in 1..N |-> Pt("perViewError", i, 0)]
              /\ pc' = "emit"
              /\ UNCHANGED <<out, exitCode, uncaught, failure>>
         ELSE /\ IF entry = "calib_cli"
                 THEN /\ Emit([success |-> FALSE,
                               error |-> ErrMsg("OpenCV Reprojection Error: e.what()", <<>>)])
                      /\ exitCode' = 0
                      /\ UNCHANGED uncaught
                 ELSE /\ uncaught' = "cv::Exception"
                      /\ UNCHANGED <<out, exitCode>>
              /\ failure' = "projector"
              /\ pc' = "done"
              /\ UNCHANGED perViewErrors
    /\ UNCHANGED <<entry, first, argc, detectVars, fileOk, headerOk, N, allImagePointsJS,
                   objPointsJS, imagePoints, objectPoints, sharedObjPoints, solverCalls,
                   rms, errOut>>

\* the success object: printed and return 0, or returned as a val
CalibEmit ==
    /\ entry \in {"calib_cli", "calib_wasm"} /\ pc = "emit"
    /\ Emit([success |-> TRUE, rms |-> rms, camera_matrix |-> "cameraMatrix",
             dist_coeffs |-> "distCoeffs", rvecs |-> "rvecs", tvecs |-> "tvecs",
             perViewErrors |-> perViewErrors])
    /\ exitCode' = (IF entry = "calib_cli" THEN 0 ELSE exitCode)
    /\ pc' = "done"
    /\ UNCHANGED <<entry, first, argc, detectVars, calibVars, errOut, uncaught>>

(* --------------------------- specifications ----------------------------- *)
Next ==
    \/ DetectCheckArgs
    \/ DetectParseArgs
    \/ DetectReadImage
    \/ GenerateCandidates
    \/ SortCandidates
    \/ Attempt
    \/ DetectCliReport
    \/ DetectWasmReport
    \/ CalibCheckArgs
    \/ CalibOpenFile
    \/ CalibReadHeader
    \/ CalibReadBlocks
    \/ CalibParseJS
    \/ CalibSolve
    \/ CalibReproject
    \/ CalibEmit

Spec == Init /\ [][Next]_vars

\* The candidate generator alone, at the point where the hint is known and
\* the image converted, over the full range of feature counts.
InitGen ==
    /\ entry \in {"detect_cli", "detect_wasm"}
    /\ pc = "gen"
    /\ argc = (IF entry = "detect_cli" THEN DetectArgc ELSE 0)
    /\ imgReadable = TRUE
    /\ imgFeatures \in 0..MaxDetectedWide
    /\ rows \in HintRange
    /\ cols \in HintRange
    /\ fileOk = TRUE
    /\ headerOk = TRUE
    /\ allImagePointsJS = <<>>
    /\ objPointsJS = <<>>
    /\ DetectDefaults
    /\ CalibDefaults
    /\ IoDefaults
    /\ first = NoRun

NextGen == GenerateCandidates

SpecGen == InitGen /\ [][NextGen]_vars

(* ------------- the two detection front ends on the same inputs ---------- *)
\* The CLI detect_corners runs first, from the point where the hint is parsed
\* and the image read; then the embedded detectCorners is called with the same
\* hint on the same image.  findChessboardCorners is a function of the image
\* and the size: asked the same size again, in either run, it answers the same.
AnswersConsistent ==
    LET all == first.attempts \o attempts IN
    \A i \in 1..Len(all) : \A j \in 1..Len(all) :
        all[i].size = all[j].size =>
            all[i].ok = all[j].ok /\ all[i].corners = all[j].corners

\* one iteration of the search loop, with the finder a function of the size
AttemptSameAnswers == Attempt /\ AnswersConsistent'

\* detectCorners(imgPtr, width, height, rows, cols) on the inputs of the
\* finished CLI run: all locals are fresh, the hint and the image are kept
StartEmbedded ==
    /\ entry = "detect_cli" /\ pc = "done" /\ ~first.ran
    /\ first' = [ran |-> TRUE, sizesToTry |-> sizesToTry, attempts |-> attempts,
                 out |-> out]
    /\ entry' = "detect_wasm"
    /\ pc' = "gen"
    /\ argc' = 0
    /\ detectedCount' = 0
    /\ sizesToTry' = <<>>
    /\ idx' = 0
    /\ found' = FALSE
    /\ foundSize' = NoSize
    /\ corners' = NoCorners
    /\ attempts' = <<>>
    /\ out' = <<>>
    /\ exitCode' = -1
    /\ UNCHANGED <<imgReadable, imgFeatures, rows, cols, calibVars, errOut, uncaught>>

InitPair ==
    /\ entry = "detect_cli"
    /\ pc = "gen"
    /\ argc = DetectArgc
    /\ imgReadable = TRUE
    /\ imgFeatures \in 0..MaxDetectedPair
    /\ rows \in 0..MaxHint
    /\ cols \in 0..MaxHint
    /\ (rows = 0) = (cols = 0)      \* a full hint, or none
    /\ fileOk = TRUE
    /\ headerOk = TRUE
    /\ allImagePointsJS = <<>>
    /\ objPointsJS = <<>>
    /\ DetectDefaults
    /\ CalibDefaults
    /\ IoDefaults
    /\ first = NoRun

NextPair ==
    \/ GenerateCandidates
    \/ SortCandidates
    \/ AttemptSameAnswers
    \/ DetectCliReport
    \/ StartEmbedded
    \/ DetectWasmReport

SpecPair == InitPair /\ [][NextPair]_vars

(* ------------------------------ properties ----------------------------- *)
\* the candidate list has been built and handed to the search loop
Generated == IsDetect(entry) /\ pc \in {"search", "report", "done"} /\ sizesToTry # <<>>

\* the search loop has ended
SearchOver == IsDetect(entry) /\ pc \in {"report", "done"} /\ sizesToTry # <<>>

AttemptedSizes == {attempts[i].size : i \in 1..Len(attempts)}

\* C1: in hinted mode (rows = r > 0, cols = c > 0) of either front end the
\* candidate list, as (width, height) pairs, is exactly (c,r), (r,c) when
\* r = 1 or c = 1 and exactly (c,r), (r,c), (c-1,r-1), (r-1,c-1) when r > 1
\* and c > 1, and no other size is ever attempted.
C1_HintedCandidates ==
    (Generated /\ rows > 0 /\ cols > 0) =>
        LET two == <<[width |-> cols, height |-> rows], [width |-> rows, height |-> cols]>>
            four == two \o <<[width |-> cols - 1, height |-> rows - 1],
                             [width |-> rows - 1, height |-> cols - 1]>>
        IN  /\ (rows = 1 \/ cols = 1) => sizesToTry = two
            /\ (rows > 1 /\ cols > 1) => sizesToTry = four
            /\ AttemptedSizes \subseteq Range(four)
            /\ (rows = 1 \/ cols = 1) => AttemptedSizes \subseteq Range(two)

\* a hint with both dimensions above 1 whose four candidates were all tried
C1_Witness ==
    /\ entry = "detect_wasm" /\ pc = "report"
    /\ rows = 3 /\ cols = 2
    /\ Len(attempts) = 4 /\ ~found

\* C2: in auto mode, for every detectedCount >= 0, the set of generated
\* candidates is exactly the set of pairs (r, c) with 3 <= r <= 20,
\* 3 <= c <= 20 and r*c <= detectedCount + 20, each pair generated once;
\* with detectedCount = 40, (9,9) is excluded.
C2_AutoCandidateSet ==
    (IsDetect(entry) /\ pc = "sort") =>
        /\ detectedCount = imgFeatures
        /\ Range(sizesToTry) =
             {[width |-> c, height |-> r] : <<r, c>> \in
                 {rc \in (3..20) \X (3..20) : rc[1] * rc[2] <= detectedCount + 20}}
        /\ Len(sizesToTry) = Cardinality(Range(sizesToTry))
        /\ detectedCount = 40 => [width |-> 9, height |-> 9] \notin Range(sizesToTry)

\* detectedCount = 40: the pairs of area 60 are in, (9,9) is out
C2_Witness ==
    /\ IsDetect(entry) /\ pc = "sort" /\ detectedCount = 40
    /\ [width |-> 20, height |-> 3] \in Range(sizesToTry)
    /\ [width |-> 6, height |-> 10] \in Range(sizesToTry)
    /\ [width |-> 9, height |-> 9] \notin Range(sizesToTry)

\* C3: in auto mode the candidate list handed to the search loop is sorted by
\* area descending, and candidates of equal area appear in order of r
\* (height) ascending, then c (width) ascending.
C3_AutoOrderWithTieBreak ==
    (Generated /\ ~(rows > 0 /\ cols > 0)) =>
        \A i \in 1..Len(sizesToTry) : \A j \in 1..Len(sizesToTry) :
            i < j =>
                LET a == sizesToTry[i]
                    b == sizesToTry[j]
                IN  \/ a.width * a.height > b.width * b.height
                    \/ /\ a.width * a.height = b.width * b.height
                       /\ \/ a.height < b.height
                          \/ a.height = b.height /\ a.width < b.width

\* C4: the candidate sequence is deduplicated: no size occurs at two
\* positions, so the finder is never invoked twice with the same size.
C4_NoDuplicateCandidates ==
    Generated =>
        /\ \A i \in 1..Len(sizesToTry) : \A j \in 1..Len(sizesToTry) :
              i # j => sizesToTry[i] # sizesToTry[j]
        /\ \A i \in 1..Len(attempts) : \A j \in 1..Len(attempts) :
              i # j => attempts[i].size # attempts[j].size

\* the flag and the fields of the object a detection front end emitted
ReportedFound(o) == IF entry = "detect_cli" THEN o.success ELSE o.found

\* C5: the candidates are attempted once each, in sequence order; nothing is
\* attempted after a success; the reported size and corners are those of the
\* first candidate the finder succeeds on; failure is reported iff the finder
\* failed on every candidate.
C5_FirstSuccessSearch ==
    IsDetect(entry) =>
        LET k == Len(attempts) IN
        /\ k <= Len(sizesToTry)
        /\ \A i \in 1..k : attempts[i].size = sizesToTry[i]
        /\ \A i \in 1..k : i < k => ~attempts[i].ok
        /\ SearchOver =>
             /\ k >= 1
             /\ found = attempts[k].ok
             /\ found => /\ foundSize = sizesToTry[k]
                         /\ corners.id = attempts[k].corners
             /\ ~found => k = Len(sizesToTry)
        /\ (SearchOver /\ pc = "done") =>
             /\ Len(out) = 1
             /\ ReportedFound(out[1]) = (\E i \in 1..Len(sizesToTry) : i <= k /\ attempts[i].ok)
             /\ ReportedFound(out[1]) =>
                  /\ out[1].cols = sizesToTry[k].width
                  /\ out[1].rows = sizesToTry[k].height
                  /\ out[1].corners = [id |-> attempts[k].corners, refined |-> TRUE]

\* the finder failed on the first candidate and succeeded on the second
C5_Witness ==
    /\ entry = "detect_cli" /\ pc = "done"
    /\ Len(attempts) = 2 /\ ~attempts[1].ok /\ attempts[2].ok
    /\ Len(sizesToTry) > 2
    /\ Len(out) = 1 /\ out[1].success

\* C6: in the embedded calibrateCamera, with N image point sets and an object
\* point collection of outer length L: if L = N view i receives the i-th
\* inner list; if L # N every view receives the same copy of the whole
\* collection; exactly N object point sets are produced.
C6_Reconciliation ==
    (entry = "calib_wasm" /\ pc # "parse") =>
        LET n == Len(allImagePointsJS)
            l == Len(objPointsJS)
        IN  /\ N = n
            /\ Len(objectPoints) = n
            /\ Len(imagePoints) = n
            /\ l = n => \A i \in 1..n :
                   objectPoints[i] =
                     [j \in 1..objPointsJS[i].len |-> [src |-> "elem", i |-> i, j |-> j]]
            /\ l # n => \A i \in 1..n :
                   objectPoints[i] = [j \in 1..l |-> [src |-> "item", i |-> j, j |-> 0]]

\* three views with a collection of outer length five: shared
C6_Witness ==
    /\ entry = "calib_wasm" /\ pc = "solve"
    /\ N = 3 /\ Len(objPointsJS) = 5
    /\ Len(objectPoints) = 3 /\ Len(objectPoints[3]) = 5

PointCountMismatch ==
    \E i \in 1..Len(objectPoints) : Len(objectPoints[i]) # Len(imagePoints[i])

IsCalib == entry \in {"calib_cli", "calib_wasm"}

\* C7: before the solver is invoked every view has as many object points as
\* image points; the invocation ends with a PointCountMismatch error, without
\* calling the solver, iff some view's counts differ.
C7_PointCountEnforced ==
    IsCalib =>
        /\ solverCalls > 0 => ~PointCountMismatch
        /\ (pc = "done" /\ PointCountMismatch) =>
              /\ solverCalls = 0
              /\ Len(out) = 1
              /\ "error" \in DOMAIN out[1]

\* C8: a failure of the solver or of the projector ends a calibration
\* invocation with a returned error value (distinct for the two), never with
\* an uncaught exception, and without result fields.
C8_CollaboratorFailureReturned ==
    (IsCalib /\ pc = "done" /\ failure # "none") =>
        /\ uncaught = "none"
        /\ Len(out) = 1
        /\ "error" \in DOMAIN out[1]
        /\ "rms" \notin DOMAIN out[1]
        /\ failure = "projector" =>
              out[1].error.text # "OpenCV Calibration Error: e.what()"

ResultFields(o) ==
    IF IsDetect(entry) THEN {"rows", "cols", "corners"} \subseteq DOMAIN o
    ELSE {"rms", "camera_matrix", "dist_coeffs", "rvecs", "tvecs", "perViewErrors"}
            \subseteq DOMAIN o

\* C9: on every terminating path of every entry point exactly one structured
\* result object is emitted, carrying a success flag and either the result
\* fields (flag true) or an error message (flag false).
C9_OneStructuredResult ==
    pc = "done" =>
        /\ Len(out) = 1
        /\ "success" \in DOMAIN out[1]
        /\ out[1].success => ResultFields(out[1]) /\ "error" \notin DOMAIN out[1]
        /\ ~out[1].success => "error" \in DOMAIN out[1]

\* C10: when the search exhausts all candidates, every size named in the
\* failure report was attempted, and the report is the hinted-mode report
\* only when hinted mode generated the candidates.
C10_FailureReportNamesTried ==
    (SearchOver /\ pc = "done" /\ ~found /\ Len(out) = 1 /\ "error" \in DOMAIN out[1]) =>
        /\ Range(out[1].error.sizes) \subseteq AttemptedSizes
        /\ out[1].error.text = "Chessboard pattern not found. Tried" => (rows > 0 /\ cols > 0)

\* C11: for the same hint, the same detectedCount and the same answers of the
\* corner-finder, the CLI detect_corners and the embedded detectCorners build
\* the same candidate sequence, attempt the candidates in the same order and
\* report the same outcome (found or not, and the same rows and cols).
C11_FrontEndsAgree ==
    (first.ran /\ entry = "detect_wasm") =>
        /\ Generated => sizesToTry = first.sizesToTry
        /\ \A i \in 1..Len(attempts) :
              /\ i <= Len(first.attempts)
              /\ attempts[i].size = first.attempts[i].size
        /\ (pc = "done" /\ Len(out) = 1 /\ Len(first.out) = 1) =>
              /\ Len(attempts) = Len(first.attempts)
              /\ out[1].found = first.out[1].success
              /\ out[1].found => /\ out[1].rows = first.out[1].rows
                                 /\ out[1].cols = first.out[1].cols

====
